---- MODULE Spec2Model ----
(***************************************************************************)
(* A model of pkg/objstore/oss/oss.go: the Bucket adapter over the OSS     *)
(* client.  The operations are modelled in groups, each with its own       *)
(* specification over the same state:                                      *)
(*   SpecIter    Bucket.Iter, the paginated listing;                       *)
(*   SpecGet     Bucket.Get / Bucket.GetRange through Bucket.getRange;     *)
(*   SpecUpload  one Bucket.Upload call;                                   *)
(*   SpecUploads two Bucket.Upload calls running concurrently.             *)
(***************************************************************************)
EXTENDS Integers, Sequences, FiniteSets, TLC

\* ------------------------------------------------------------------ bounds

\* Pages of one backend listing.
MaxPages == 3
\* Object keys of one page.
MaxKeys == 2
\* Common prefixes of one page.
MaxPrefixes == 1
\* The largest offset and the largest length of a ranged read.
MaxOff == 3
MaxLength == 5
\* The longest input of an upload, in bytes.
MaxInput == 3
\* The length of Upload's read buffer buf (1024*1024*1024 in the code), scaled
\* down so that an input can be longer than one buffer.
BufLen == 2
\* The length of the bufio.Writer's buffer (bufio's default size), scaled down
\* likewise.
WBufLen == 2

\* ------------------------------------------------------------- constants

\* const dirDelim = "/"
dirDelim == "/"

\* oss.MaxKeys(1000)
PageSize == 1000

\* Errors are the sequences of the parts of their message, outermost context
\* first; the nil error is the empty sequence.
Nil == <<>>

\* errors.Wrap(err, message): the message is put in front of err's.
Wrap(err, message) == <<message>> \o err

\* errors.Cause of an error wrapped once.
Cause(err) == IF Len(err) > 1 THEN Tail(err) ELSE err

VARIABLES
    \* ---- the backend's listing, and one Iter call
    pages,      \* the backend's listing: the sequence of pages it serves
    ipc,        \* where the Iter call is: idle, list, visit, done
    dir,        \* Iter's dir, after normalisation
    marker,     \* Iter's marker: the cursor of the next request
    lor,        \* the oss.ListObjectsResult of the last request
    listNames,  \* the names collected from lor
    idx,        \* the position of the range loop over listNames
    requests,   \* the ListObjects requests the backend has received
    calls,      \* the visitor's invocations: its argument, what it returned
    iret,       \* what Iter returned
    dirArg,     \* the dir Iter was called with
    answers,    \* what the backend answered to each request: page or error
    ctxDone     \* whether the caller has cancelled Iter's ctx

VARIABLES
    \* ---- one Get or GetRange call
    gpc,        \* where the call is: idle, returned
    gcall,      \* the call: the method, name, off and length
    gsent,      \* the GetObject requests the call has sent to the backend
    gret        \* what the call returned

gvars == <<gpc, gcall, gsent, gret>>

VARIABLES
    \* ---- the local file system, the backend's objects, the Upload calls
    path,       \* the inode that /tmp/thanos.tmp names, 0 when it names none
    files,      \* the content of every inode, a sequence of bytes
    objects,    \* the backend's objects: name -> <<>> or <<content>>
    upc,        \* per call: idle, read, flush, upload, remove, returned,
                \* panicked
    uname,      \* per call: the object name
    input,      \* per call: the bytes the reader r holds
    pos,        \* per call: how many of them r has delivered
    rd,         \* per call: what the last r.Read returned, [n, err]
    wbuf,       \* per call: the bytes buffered in the bufio.Writer w
    fo,         \* per call: the open file fo, its inode and file offset
    handed,     \* per call: <<>>, or <<content>> of the file given to
                \* b.bkt.UploadFile
    uploadRes,  \* per call: the error b.bkt.UploadFile returned
    uret        \* per call: the error Upload returned

uvars == <<path, files, objects, upc, uname, input, pos, rd, wbuf, fo, handed,
           uploadRes, uret>>

ivars == <<pages, ipc, dir, marker, lor, listNames, idx, requests, calls, iret,
           dirArg, answers, ctxDone>>

VARIABLES
    \* ---- one NewBucket call, and the calls on the *Bucket it returned
    conf,       \* NewBucket's conf: the configuration document
    npc,        \* where NewBucket is: start, new, bucket, done
    config,     \* NewBucket's config: the Config decoded from conf
    client,     \* <<>>, or <<c>> with c the client oss.New returned
    bkt,        \* <<>>, or <<b>> with b the *Bucket NewBucket returned
    nret,       \* the error NewBucket returned
    last        \* the last call of Name, Delete, Exists, IsObjNotFoundErr or
                \* Close on the *Bucket, and what it returned

bvars == <<conf, npc, config, client, bkt, nret, last>>

vars == <<ivars, gvars, uvars, bvars>>

\* -------------------------------------------------------------- NewBucket

\* The keys of the configuration document: the yaml tags of Config.
ConfKeys == { "bucket", "endpoint", "access_id", "access_key" }

\* The values a key may be given, as sequences of characters: two bucket
\* names, one value for the others, and the empty string.
ConfValues(key) ==
    IF key = "bucket" THEN { <<>>, <<"B">>, <<"c">> } ELSE { <<>>, <<"v">> }

\* The configuration documents: a document that does not parse, and the
\* documents that set some of the keys, each once.
Confs ==
    { [parses |-> FALSE, pairs |-> {}] } \cup
    { [parses |-> TRUE, pairs |-> ps] :
        ps \in { qs \in SUBSET UNION { { <<k, v>> : v \in ConfValues(k) } :
                                         k \in ConfKeys } :
                    \A q1 \in qs, q2 \in qs : q1[1] = q2[1] => q1 = q2 } }

\* The value the document gives to key: the zero value "" when it sets none.
ValueOf(doc, key) ==
    IF \E q \in doc.pairs : q[1] = key
    THEN (CHOOSE q \in doc.pairs : q[1] = key)[2]
    ELSE <<>>

\* yaml.Unmarshal(conf, &config) of a document that parses.
Unmarshal(doc) ==
    [Bucket    |-> ValueOf(doc, "bucket"),
     Endpoint  |-> ValueOf(doc, "endpoint"),
     AccessID  |-> ValueOf(doc, "access_id"),
     AccessKey |-> ValueOf(doc, "access_key")]

\* var config Config
ZeroConfig ==
    [Bucket |-> <<>>, Endpoint |-> <<>>, AccessID |-> <<>>, AccessKey |-> <<>>]

\* The error of a yaml.Unmarshal that fails, of a failed oss.New and of a
\* failed client.Bucket.
YamlErr == <<"yaml: unmarshal errors">>
NewClientErr == <<"oss: new client failed">>
BucketErr == <<"oss: bucket name invalid">>

\* func (conf *Config) validate() error
validateOmitsAccessKey(c) ==
    IF c.Bucket = <<>> \/ c.Endpoint = <<>> \/ c.AccessID = <<>>
    THEN <<"insufficient oss configuration information">>
    ELSE Nil
validate(c) ==
    IF c.Bucket = <<>> \/ c.Endpoint = <<>> \/ c.AccessID = <<>>
       \/ c.AccessKey = <<>>
    THEN <<"insufficient oss configuration information">>
    ELSE Nil

\* The client oss.New(endpoint, accessKeyID, accessKeySecret) returns.
OssNew(endpoint, accessKeyID, accessKeySecret) ==
    [endpoint |-> endpoint, accessKeyID |-> accessKeyID,
     accessKeySecret |-> accessKeySecret]

\* The *oss.Bucket that c.Bucket(name) returns.
ClientBucket(c, name) == [client |-> c, name |-> name]

\* The record of the last call on the *Bucket, before any.
NoCallYet ==
    [op |-> "none", name |-> <<>>, err |-> Nil, str |-> <<>>, flag |-> FALSE,
     absent |-> FALSE, answer |-> Nil]

\* Before NewBucket is called.
NewBucketInit ==
    /\ conf = [parses |-> FALSE, pairs |-> {}]
    /\ npc = "start"
    /\ config = ZeroConfig
    /\ client = <<>>
    /\ bkt = <<>>
    /\ nret = Nil
    /\ last = NoCallYet

\* NewBucket(logger, c, component) up to oss.New: the document is decoded
\* and the Config validated; a failure of either is returned, wrapped.
NewBucketParse(c) ==
    /\ npc = "start"
    /\ conf' = c
    /\ IF ~c.parses
       THEN /\ npc' = "done"
            /\ nret' = Wrap(YamlErr, "parsing oss configuration")
            /\ config' = config
       ELSE /\ config' = Unmarshal(c)
            /\ IF validate(Unmarshal(c)) # Nil
               THEN /\ npc' = "done"
                    /\ nret' = Wrap(validate(Unmarshal(c)),
                                    "validate oss configuration")
               ELSE /\ npc' = "new"
                    /\ nret' = nret
    /\ UNCHANGED <<client, bkt, last>>
    /\ UNCHANGED <<ivars, gvars, uvars>>

\* client, err := oss.New(config.Endpoint, config.AccessID, config.AccessKey)
NewBucketClient(ok) ==
    /\ npc = "new"
    /\ IF ok
       THEN /\ client' = << OssNew(config.Endpoint, config.AccessID,
                                   config.AccessKey) >>
            /\ npc' = "bucket"
            /\ nret' = nret
       ELSE /\ client' = client
            /\ npc' = "done"
            /\ nret' = Wrap(NewClientErr, "initialize oss client")
    /\ UNCHANGED <<conf, config, bkt, last>>
    /\ UNCHANGED <<ivars, gvars, uvars>>

\* bucket, err := client.Bucket(config.Bucket), and the *Bucket built from
\* bucket and config.Bucket.
NewBucketBind(ok) ==
    /\ npc = "bucket"
    /\ npc' = "done"
    /\ IF ok
       THEN /\ bkt' = << [bkt  |-> ClientBucket(client[1], config.Bucket),
                          name |-> config.Bucket] >>
            /\ nret' = Nil
       ELSE /\ bkt' = bkt
            /\ nret' = Wrap(BucketErr, "new bucket")
    /\ UNCHANGED <<conf, config, client, last>>
    /\ UNCHANGED <<ivars, gvars, uvars>>

\* The document of the *Bucket the other operations are called on.
BoundConf ==
    [parses |-> TRUE,
     pairs  |-> { <<"bucket", <<"B">> >>, <<"endpoint", <<"v">> >>,
                  <<"access_id", <<"v">> >>, <<"access_key", <<"v">> >> }]

\* After a NewBucket(logger, BoundConf, component) that succeeded.
BucketBound ==
    /\ conf = BoundConf
    /\ npc = "done"
    /\ config = Unmarshal(BoundConf)
    /\ client = << OssNew(<<"v">>, <<"v">>, <<"v">>) >>
    /\ bkt = << [bkt  |-> ClientBucket(OssNew(<<"v">>, <<"v">>, <<"v">>), <<"B">>),
                 name |-> <<"B">>] >>
    /\ nret = Nil
    /\ last = NoCallYet

\* ---------------------------------------------------------------- Upload

\* The Upload calls that may run: one alone, or both at once.
Procs == { 1, 2 }

\* The bytes of the inputs; 0 is the byte a hole of a file reads as.
Bytes == { 1, 2 }

RECURSIVE SeqsUpTo(_, _)
SeqsUpTo(S, n) ==
    IF n = 0 THEN { <<>> }
    ELSE LET shorter == SeqsUpTo(S, n - 1)
         IN  shorter \cup { Append(q, b) : q \in shorter, b \in S }

\* The inputs of an upload: every byte sequence of up to MaxInput bytes.
Inputs == SeqsUpTo(Bytes, MaxInput)

\* The names objects are uploaded under.
UploadNames == { <<"x">>, <<"y">> }

\* What r.Read may return as err.
EOF == <<"EOF">>
ReadErr == <<"unexpected read error">>

\* The content of a file that an earlier run left at /tmp/thanos.tmp.
Stale == [i \in 1..(MaxInput + 1) |-> 0]

Min(a, b) == IF a < b THEN a ELSE b
Max(a, b) == IF a > b THEN a ELSE b

\* The results r.Read(buf) may have when pos bytes of data are consumed: n
\* bytes, at most the buffer and at most what is left, and an error: nil, EOF
\* (only with the last of the data, or after it) or a failure.  A read of
\* no bytes that reports no error is allowed by io.Reader.
ReadResults(data, at) ==
    { r \in [n : 0..Min(BufLen, Len(data) - at), err : {Nil, EOF, ReadErr}] :
        r.err = EOF => at + r.n = Len(data) }

\* The file content after n bytes are written at offset off: the bytes
\* between the end of the file and off read as 0.
WriteAt(content, off, bytes) ==
    LET end == Max(Len(content), off + Len(bytes))
    IN  [i \in 1..end |->
            IF i > off /\ i <= off + Len(bytes) THEN bytes[i - off]
            ELSE IF i <= Len(content) THEN content[i]
            ELSE 0]

\* w.Write(p) of the bufio.Writer holding buf: what reaches the file, in
\* order, and what stays buffered.  While p does not fit, an empty buffer lets
\* p go to the file directly, and a filled one is topped up and flushed.
RECURSIVE BufioWrite(_, _)
BufioWriteDropsOverflow(buf, p) ==
    [file |-> <<>>, buf |-> SubSeq(buf \o p, 1, Min(WBufLen, Len(buf) + Len(p)))]
BufioWrite(buf, p) ==
    IF Len(p) > WBufLen - Len(buf)
    THEN IF Len(buf) = 0
         THEN [file |-> p, buf |-> <<>>]
         ELSE LET n == WBufLen - Len(buf)
                  rest == BufioWrite(<<>>, SubSeq(p, n + 1, Len(p)))
              IN  [file |-> buf \o SubSeq(p, 1, n) \o rest.file,
                   buf  |-> rest.buf]
    ELSE [file |-> <<>>, buf |-> buf \o p]

\* No goroutine has panicked: a panic ends the whole process.
Running == \A q \in Procs : upc[q] # "panicked"

NoRead == [n |-> 0, err |-> Nil]
Closed == [ino |-> 0, off |-> 0]

\* Before any Upload: the scratch path names nothing, or a file that an
\* earlier run left behind.
UploadInit ==
    /\ \E left \in BOOLEAN :
          IF left THEN path = 1 /\ files = <<Stale>>
                  ELSE path = 0 /\ files = <<>>
    /\ objects = [name \in UploadNames |-> <<>>]
    /\ upc = [p \in Procs |-> "idle"]
    /\ uname = [p \in Procs |-> <<>>]
    /\ input = [p \in Procs |-> <<>>]
    /\ pos = [p \in Procs |-> 0]
    /\ rd = [p \in Procs |-> NoRead]
    /\ wbuf = [p \in Procs |-> <<>>]
    /\ fo = [p \in Procs |-> Closed]
    /\ handed = [p \in Procs |-> <<>>]
    /\ uploadRes = [p \in Procs |-> Nil]
    /\ uret = [p \in Procs |-> Nil]

\* The state of the upload variables when no Upload is modelled.
UploadQuiet ==
    /\ path = 0
    /\ files = <<>>
    /\ objects = [name \in UploadNames |-> <<>>]
    /\ upc = [p \in Procs |-> "idle"]
    /\ uname = [p \in Procs |-> <<>>]
    /\ input = [p \in Procs |-> <<>>]
    /\ pos = [p \in Procs |-> 0]
    /\ rd = [p \in Procs |-> NoRead]
    /\ wbuf = [p \in Procs |-> <<>>]
    /\ fo = [p \in Procs |-> Closed]
    /\ handed = [p \in Procs |-> <<>>]
    /\ uploadRes = [p \in Procs |-> Nil]
    /\ uret = [p \in Procs |-> Nil]

\* panic(err): the process dies where it stands.
Panic(p) ==
    /\ upc' = [upc EXCEPT ![p] = "panicked"]
    /\ UNCHANGED <<uret, fo>>

\* return err, and the deferred fo.Close(), which panics when it fails.
Return(p, err, closeOk) ==
    IF closeOk
    THEN /\ upc' = [upc EXCEPT ![p] = "returned"]
         /\ uret' = [uret EXCEPT ![p] = err]
         /\ fo' = [fo EXCEPT ![p] = Closed]
    ELSE Panic(p)

\* os.Create(tmpFilename): an existing file is truncated, a missing one is
\* created; either way fo is open on it at offset 0.
OsCreate(p) ==
    IF path # 0
    THEN /\ files' = [files EXCEPT ![path] = <<>>]
         /\ fo' = [fo EXCEPT ![p] = [ino |-> path, off |-> 0]]
         /\ path' = path
    ELSE /\ files' = Append(files, <<>>)
         /\ path' = Len(files) + 1
         /\ fo' = [fo EXCEPT ![p] = [ino |-> Len(files) + 1, off |-> 0]]

\* fo.Write(bytes): the bytes go to fo's inode at fo's offset, which advances.
FileWrite(p, bytes) ==
    /\ files' = [files EXCEPT ![fo[p].ino] = WriteAt(@, fo[p].off, bytes)]
    /\ fo' = [fo EXCEPT ![p].off = @ + Len(bytes)]

\* Upload(ctx, name, r) up to the loop: the scratch file is created (a
\* failure panics), and the writer w and the buffer buf are made.
UploadCreate(p, name, data, ok) ==
    /\ Running
    /\ upc[p] = "idle"
    /\ uname' = [uname EXCEPT ![p] = name]
    /\ input' = [input EXCEPT ![p] = data]
    /\ IF ok
       THEN /\ OsCreate(p)
            /\ upc' = [upc EXCEPT ![p] = "read"]
            /\ uret' = uret
       ELSE /\ Panic(p)
            /\ UNCHANGED <<path, files>>
    /\ UNCHANGED <<objects, pos, rd, wbuf, handed, uploadRes>>
    /\ UNCHANGED <<ivars, gvars, bvars>>

\* After n, err := r.Read(buf): what ends the loop.
ReadEndsLoop(r) == r.n = 0

\* One turn of the loop: r.Read(buf) returns r; an error other than io.EOF
\* panics; no bytes end the loop; otherwise w.Write(buf[:n]), which panics
\* when a write to the file fails.
UploadRead(p, r, ok) ==
    /\ Running
    /\ upc[p] = "read"
    /\ rd' = [rd EXCEPT ![p] = r]
    /\ pos' = [pos EXCEPT ![p] = @ + r.n]
    /\ LET chunk == SubSeq(input[p], pos[p] + 1, pos[p] + r.n)
           w == BufioWrite(wbuf[p], chunk)
       IN  IF r.err # Nil /\ r.err # EOF
           THEN /\ ok
                /\ Panic(p)
                /\ UNCHANGED <<files, wbuf>>
           ELSE IF ReadEndsLoop(r)
           THEN /\ ok
                /\ upc' = [upc EXCEPT ![p] = "flush"]
                /\ UNCHANGED <<files, wbuf, fo, uret>>
           ELSE IF w.file = <<>>
           THEN /\ ok
                /\ wbuf' = [wbuf EXCEPT ![p] = w.buf]
                /\ UNCHANGED <<files, fo, upc, uret>>
           ELSE IF ok
           THEN /\ FileWrite(p, w.file)
                /\ wbuf' = [wbuf EXCEPT ![p] = w.buf]
                /\ UNCHANGED <<upc, uret>>
           ELSE /\ Panic(p)
                /\ UNCHANGED <<files, wbuf>>
    /\ UNCHANGED <<path, objects, uname, input, handed, uploadRes>>
    /\ UNCHANGED <<ivars, gvars, bvars>>

\* w.Flush(): what is buffered goes to the file; a failure panics.
UploadFlush(p, ok) ==
    /\ Running
    /\ upc[p] = "flush"
    /\ IF wbuf[p] = <<>>
       THEN /\ ok
            /\ upc' = [upc EXCEPT ![p] = "upload"]
            /\ UNCHANGED <<files, wbuf, fo, uret>>
       ELSE IF ok
       THEN /\ FileWrite(p, wbuf[p])
            /\ wbuf' = [wbuf EXCEPT ![p] = <<>>]
            /\ upc' = [upc EXCEPT ![p] = "upload"]
            /\ uret' = uret
       ELSE /\ Panic(p)
            /\ UNCHANGED <<files, wbuf>>
    /\ UNCHANGED <<path, objects, uname, input, pos, rd, handed, uploadRes>>
    /\ UNCHANGED <<ivars, gvars, bvars>>

\* What Upload does when b.bkt.UploadFile has returned err.
AfterUploadFile(p, err, closeOk) ==
    /\ path' = path
    /\ IF err # Nil
       THEN Return(p, Wrap(err, "upload oss object"), closeOk)
       ELSE /\ closeOk
            /\ upc' = [upc EXCEPT ![p] = "remove"]
            /\ UNCHANGED <<uret, fo>>

\* err = b.bkt.UploadFile(name, tmpFilename, ...): the file the path names
\* now is read and sent; it fails when the path names no file or when the
\* backend fails (err # Nil).  An error is returned wrapped.
UploadFile(p, err, closeOk) ==
    /\ Running
    /\ upc[p] = "upload"
    /\ IF path = 0
       THEN /\ err = <<"open /tmp/thanos.tmp: no such file">>
            /\ UNCHANGED <<handed, objects>>
       ELSE /\ err \in { Nil, <<"backendErr">> }
            /\ handed' = [handed EXCEPT ![p] = <<files[path]>>]
            /\ objects' = IF err = Nil
                          THEN [objects EXCEPT ![uname[p]] = <<files[path]>>]
                          ELSE objects
    /\ uploadRes' = [uploadRes EXCEPT ![p] = err]
    /\ AfterUploadFile(p, err, closeOk)
    /\ UNCHANGED <<files, uname, input, pos, rd, wbuf>>
    /\ UNCHANGED <<ivars, gvars, bvars>>

\* What Upload returns when os.Remove has returned err.
RemoveResult(err) ==
    IF err # Nil THEN Wrap(err, "deleted tmp uploadFile") ELSE Nil

\* err = os.Remove(tmpFilename), then the return: the path is unlinked, or
\* the removal fails (always when the path names no file) and its error is
\* returned wrapped.
UploadRemove(p, err, closeOk) ==
    /\ Running
    /\ upc[p] = "remove"
    /\ path = 0 => err # Nil
    /\ path' = IF err = Nil THEN 0 ELSE path
    /\ Return(p, RemoveResult(err), closeOk)
    /\ UNCHANGED <<files, objects, uname, input, pos, rd, wbuf, handed,
                   uploadRes>>
    /\ UNCHANGED <<ivars, gvars, bvars>>

\* The errors UploadFile and os.Remove may return.
UploadFileErrors ==
    { Nil, <<"backendErr">>, <<"open /tmp/thanos.tmp: no such file">> }
RemoveErrors == { Nil, <<"remove /tmp/thanos.tmp: failed">> }

\* The steps of the Upload call p, called with a name of names and a reader
\* over one of inputs.
UploadStep(p, names, inputs) ==
    \/ \E name \in names, data \in inputs, ok \in BOOLEAN :
          UploadCreate(p, name, data, ok)
    \/ \E r \in ReadResults(input[p], pos[p]), ok \in BOOLEAN :
          UploadRead(p, r, ok)
    \/ \E ok \in BOOLEAN : UploadFlush(p, ok)
    \/ \E err \in UploadFileErrors, closeOk \in BOOLEAN :
          UploadFile(p, err, closeOk)
    \/ \E err \in RemoveErrors, closeOk \in BOOLEAN :
          UploadRemove(p, err, closeOk)

\* ------------------------------------------------- Get, GetRange, getRange

\* Object names, as sequences of characters.
Names == { <<>>, <<"x">>, <<"y">> }

\* The offsets and lengths a caller may pass (int64 in the code; the values
\* here stay far from its limits).
Offsets == (-1)..MaxOff
Lengths == (-2)..MaxLength

\* What b.bkt.GetObject answers: a body and no error, or no body and the
\* backend's error.
GetResponses == { [body |-> "body", err |-> Nil],
                  [body |-> "none", err |-> <<"backendErr">>] }

NoCall == [method |-> "none", name |-> <<>>, off |-> 0, length |-> 0]

\* oss.Range(start, end): the option asking for the bytes start..end,
\* both inclusive.
OssRange(start, end) == [option |-> "Range", start |-> start, end |-> end]

\* The options getRange builds: set to the range at first, and set again
\* when length != -1.
RangeOptionsEndExclusive(off, length) == <<OssRange(off, off + length)>>
RangeOptions(off, length) ==
    LET options == <<OssRange(off, off + length - 1)>>
    IN  IF length # -1
        THEN <<OssRange(off, off + length - 1)>>
        ELSE options

\* b.bkt.GetObject(name, options...)
GetObjectRequest(name, options) ==
    [op |-> "GetObject", name |-> name, options |-> options]

GetInit ==
    /\ gpc = "idle"
    /\ gcall = NoCall
    /\ gsent = <<>>
    /\ gret = [body |-> "none", err |-> Nil]

\* b.getRange(ctx, name, off, length), the backend answering resp: an empty
\* name is refused; anything else is sent to the backend with the options,
\* and the backend's body or error is returned.
getRange(name, off, length, resp) ==
    /\ gpc' = "returned"
    /\ IF Len(name) = 0
       THEN /\ gret' = [body |-> "none",
                          err |-> <<"given object name should not empty">>]
            /\ gsent' = gsent
       ELSE /\ gsent' = Append(gsent,
                            GetObjectRequest(name, RangeOptions(off, length)))
            /\ gret' = resp

\* Get(ctx, name): return b.getRange(ctx, name, 0, -1)
Get(name, resp) ==
    /\ gpc = "idle"
    /\ gcall' = [method |-> "Get", name |-> name, off |-> 0, length |-> -1]
    /\ getRange(name, 0, -1, resp)
    /\ UNCHANGED <<ivars, uvars, bvars>>

\* GetRange(ctx, name, off, length): return b.getRange(ctx, name, off, length)
GetRange(name, off, length, resp) ==
    /\ gpc = "idle"
    /\ gcall' = [method |-> "GetRange", name |-> name, off |-> off,
                 length |-> length]
    /\ getRange(name, off, length, resp)
    /\ UNCHANGED <<ivars, uvars, bvars>>

GetNext ==
    \/ \E name \in Names, resp \in GetResponses : Get(name, resp)
    \/ \E name \in Names, off \in Offsets, length \in Lengths,
          resp \in GetResponses : GetRange(name, off, length, resp)

\* The backend's listing when no Iter is modelled.
IterQuiet ==
    /\ pages = <<>>
    /\ ipc = "idle"
    /\ dir = <<>>
    /\ marker = 0
    /\ lor = <<>>
    /\ listNames = <<>>
    /\ idx = 1
    /\ requests = <<>>
    /\ calls = <<>>
    /\ iret = Nil
    /\ dirArg = <<>>
    /\ answers = <<>>
    /\ ctxDone = FALSE

InitGet == GetInit /\ IterQuiet /\ UploadQuiet /\ BucketBound

SpecGet == InitGet /\ [][GetNext]_vars

\* The call in the state has returned after sending its request.
Returned(method) == gpc = "returned" /\ gcall.method = method

\* C5: a GetRange with a non-empty name, off >= 0 and length > 0 sends the
\* backend one request, for that object, with one range option that starts at
\* off and spans exactly length bytes, its end off + length - 1 inclusive.
C5_RangeRequest ==
    (Returned("GetRange") /\ Len(gcall.name) > 0
        /\ gcall.off >= 0 /\ gcall.length > 0) =>
        /\ Len(gsent) = 1
        /\ gsent[1].op = "GetObject"
        /\ gsent[1].name = gcall.name
        /\ Len(gsent[1].options) = 1
        /\ gsent[1].options[1].option = "Range"
        /\ gsent[1].options[1].start = gcall.off
        /\ gsent[1].options[1].end - gsent[1].options[1].start + 1
              = gcall.length

\* GetRange(name, 2, 5) has asked for the bytes 2 through 6.
C5_Witness ==
    /\ Returned("GetRange")
    /\ gcall.off = 2 /\ gcall.length = 5
    /\ Len(gsent) = 1
    /\ gsent[1].options = <<OssRange(2, 6)>>

\* C6: for off = 0 and length = -1, through Get and through GetRange alike, the
\* one request sent asks for the entire object and carries no byte range.
C6_WholeObjectNoRange ==
    (gpc = "returned" /\ Len(gcall.name) > 0
        /\ gcall.off = 0 /\ gcall.length = -1) =>
        /\ Len(gsent) = 1
        /\ gsent[1].name = gcall.name
        /\ gsent[1].options = <<>>

\* C7: a GetRange with length = 0, length < -1 or off < 0 fails with an
\* invalid-range error and sends the backend nothing.
C7_InvalidRangeRejected ==
    (Returned("GetRange") /\ Len(gcall.name) > 0
        /\ (gcall.length = 0 \/ gcall.length < -1 \/ gcall.off < 0)) =>
        /\ gret.body = "none"
        /\ gret.err = <<"invalidRangeErr">>
        /\ gsent = <<>>

\* ------------------------------------------------------------------ Iter

\* The k-th key and the k-th common prefix of page p: all distinct.
Key(p, k) == <<"key", p, k>>
Prefix(p, k) == <<"prefix", p, k>>

\* The markers are opaque tokens: 0 is the empty marker, m > 0 the token with
\* which the backend resumes at page m + 1.
EmptyMarker == 0

\* A page of nk keys and np common prefixes, page p of n: an
\* oss.ListObjectsResult.
Page(p, n, nk, np) ==
    [Objects        |-> [k \in 1..nk |-> Key(p, k)],
     CommonPrefixes |-> [k \in 1..np |-> Prefix(p, k)],
     NextMarker     |-> IF p < n THEN p ELSE EmptyMarker,
     IsTruncated    |-> p < n]

\* The listings: 1..MaxPages pages, each with up to MaxKeys keys and up to
\* MaxPrefixes common prefixes; every page but the last is truncated.
Listings ==
    UNION {
        { [p \in 1..n |-> Page(p, n, shape[p][1], shape[p][2])] :
            shape \in [1..n -> (0..MaxKeys) \X (0..MaxPrefixes)] } :
        n \in 1..MaxPages }

\* The directories Iter is called with, as sequences of characters.
Dirs == { <<>>, <<"a">>, <<"a", "/">>, <<"a", "/", "b">> }

\* The error of a failed b.bkt.ListObjects.
ListErr == <<"listErr">>

\* What the visitor may return.
VisitorErrors == { <<"e1">>, <<"e2">> }

\* strings.TrimSuffix(s, suffix), for a one-character suffix.
TrimSuffix(s, suffix) ==
    IF Len(s) > 0 /\ s[Len(s)] = suffix THEN SubSeq(s, 1, Len(s) - 1) ELSE s

\* if dir != "" { dir = strings.TrimSuffix(dir, dirDelim) + dirDelim }
NormalizeDirNoTrim(d) ==
    IF d # <<>> THEN Append(d, dirDelim) ELSE d
NormalizeDir(d) ==
    IF d # <<>> THEN Append(TrimSuffix(d, dirDelim), dirDelim) ELSE d

\* listNames: the keys of lor.Objects, then lor.CommonPrefixes.
ListNamesPrefixesFirst(l) == l.CommonPrefixes \o l.Objects
ListNames(l) == l.Objects \o l.CommonPrefixes

\* The request of b.bkt.ListObjects(oss.MaxKeys(1000), marker, oss.Prefix(dir),
\* oss.Delimiter("/")).
ListRequest(m, d) ==
    [MaxKeys |-> PageSize, Marker |-> m, Prefix |-> d, Delimiter |-> "/"]

\* The page the backend serves for a marker.
ServePage(m) == pages[m + 1]

NoPage == [Objects |-> <<>>, CommonPrefixes |-> <<>>,
           NextMarker |-> EmptyMarker, IsTruncated |-> FALSE]

IterInit ==
    /\ pages \in Listings
    /\ ipc = "idle"
    /\ dir = <<>>
    /\ marker = EmptyMarker
    /\ lor = NoPage
    /\ listNames = <<>>
    /\ idx = 1
    /\ requests = <<>>
    /\ calls = <<>>
    /\ iret = Nil
    /\ dirArg = <<>>
    /\ answers = <<>>
    /\ ctxDone = FALSE

\* Iter(ctx, dir, f): the prefix is normalised and the marker starts empty.
IterCall(d) ==
    /\ ipc = "idle"
    /\ dirArg' = d
    /\ dir' = NormalizeDir(d)
    /\ marker' = EmptyMarker
    /\ ipc' = "list"
    /\ UNCHANGED <<pages, lor, listNames, idx, requests, calls, iret, answers,
                   ctxDone>>
    /\ UNCHANGED <<gvars, uvars, bvars>>

\* lor, err := b.bkt.ListObjects(...): a failure is returned as it is;
\* otherwise the names of the page are collected.
IterListIgnoresFailure(ok) ==
    /\ ipc = "list"
    /\ requests' = Append(requests, ListRequest(marker, dir))
    /\ answers' = Append(answers, IF ok THEN "page" ELSE "error")
    /\ lor' = IF ok THEN ServePage(marker) ELSE NoPage
    /\ listNames' = IF ok THEN ListNames(ServePage(marker)) ELSE <<>>
    /\ idx' = 1
    /\ ipc' = "visit"
    /\ UNCHANGED <<pages, dir, marker, calls, iret, dirArg, ctxDone>>
    /\ UNCHANGED <<gvars, uvars, bvars>>
IterList(ok) ==
    /\ ipc = "list"
    /\ requests' = Append(requests, ListRequest(marker, dir))
    /\ answers' = Append(answers, IF ok THEN "page" ELSE "error")
    /\ IF ok
       THEN /\ lor' = ServePage(marker)
            /\ listNames' = ListNames(ServePage(marker))
            /\ idx' = 1
            /\ ipc' = "visit"
            /\ iret' = iret
       ELSE /\ iret' = ListErr
            /\ ipc' = "done"
            /\ UNCHANGED <<lor, listNames, idx>>
    /\ UNCHANGED <<pages, dir, marker, calls, dirArg, ctxDone>>
    /\ UNCHANGED <<gvars, uvars, bvars>>

\* if err := f(name); err != nil { return err }
VisitReturnIgnored(err) ==
    /\ idx' = idx + 1
    /\ UNCHANGED <<ipc, iret>>
VisitReturn(err) ==
    IF err # Nil
    THEN /\ iret' = err
         /\ ipc' = "done"
         /\ idx' = idx
    ELSE /\ idx' = idx + 1
         /\ UNCHANGED <<ipc, iret>>

\* One turn of the range loop over listNames: f(name) is called and returns
\* err.
IterVisit(err) ==
    /\ ipc = "visit"
    /\ idx <= Len(listNames)
    /\ calls' = Append(calls, [name |-> listNames[idx], err |-> err,
                               page |-> Len(requests)])
    /\ VisitReturn(err)
    /\ UNCHANGED <<pages, dir, marker, lor, listNames, requests, dirArg,
                   answers, ctxDone>>
    /\ UNCHANGED <<gvars, uvars, bvars>>

\* After the range loop: marker = oss.Marker(lor.NextMarker), and the loop
\* over the pages ends when lor.IsTruncated is false.
IterNextPageKeepsMarker ==
    /\ ipc = "visit"
    /\ idx > Len(listNames)
    /\ IF ~lor.IsTruncated
       THEN ipc' = "done" /\ iret' = Nil
       ELSE ipc' = "list" /\ iret' = iret
    /\ UNCHANGED <<pages, dir, marker, lor, listNames, idx, requests, calls,
                   dirArg, answers, ctxDone>>
    /\ UNCHANGED <<gvars, uvars, bvars>>
IterNextPageEmptyIsError ==
    /\ ipc = "visit"
    /\ idx > Len(listNames)
    /\ marker' = lor.NextMarker
    /\ IF Len(listNames) = 0
       THEN ipc' = "done" /\ iret' = <<"empty page">>
       ELSE IF ~lor.IsTruncated
       THEN ipc' = "done" /\ iret' = Nil
       ELSE ipc' = "list" /\ iret' = iret
    /\ UNCHANGED <<pages, dir, lor, listNames, idx, requests, calls, dirArg,
                   answers, ctxDone>>
    /\ UNCHANGED <<gvars, uvars, bvars>>
IterNextPage ==
    /\ ipc = "visit"
    /\ idx > Len(listNames)
    /\ marker' = lor.NextMarker
    /\ IF ~lor.IsTruncated
       THEN ipc' = "done" /\ iret' = Nil
       ELSE ipc' = "list" /\ iret' = iret
    /\ UNCHANGED <<pages, dir, lor, listNames, idx, requests, calls, dirArg,
                   answers, ctxDone>>
    /\ UNCHANGED <<gvars, uvars, bvars>>

\* The caller cancels the ctx it gave to Iter; Iter never reads ctx.
IterCancel ==
    /\ ~ctxDone
    /\ ctxDone' = TRUE
    /\ UNCHANGED <<pages, ipc, dir, marker, lor, listNames, idx, requests,
                   calls, iret, dirArg, answers>>
    /\ UNCHANGED <<gvars, uvars, bvars>>

IterNext ==
    \/ \E d \in Dirs : IterCall(d)
    \/ \E ok \in BOOLEAN : IterList(ok)
    \/ \E err \in VisitorErrors \cup {Nil} : IterVisit(err)
    \/ IterNextPage

InitIter == IterInit /\ GetInit /\ UploadQuiet /\ BucketBound

SpecIter == InitIter /\ [][IterNext]_vars

\* RECURSIVE helper: the entries of pages n..Len(ps), in the order of the
\* contract: page by page, the keys of a page before its common prefixes.
RECURSIVE EntriesFrom(_, _)
EntriesFrom(ps, n) ==
    IF n > Len(ps) THEN <<>>
    ELSE ps[n].Objects \o ps[n].CommonPrefixes \o EntriesFrom(ps, n + 1)

\* The arguments of the visitor's invocations, in order.
Visited == [k \in 1..Len(calls) |-> calls[k].name]

\* The visitor has never failed and no page request has failed.
NoFailure ==
    /\ \A k \in 1..Len(calls) : calls[k].err = Nil
    /\ iret # ListErr

\* C1: when the visitor never fails (and every page request succeeds), an Iter
\* that has returned has called the visitor exactly once for every key and
\* every common prefix of every page, in page order, within each page all keys
\* before all common prefixes, and has returned no error.
C1_IterVisitsAll ==
    (ipc = "done" /\ NoFailure) =>
        /\ Visited = EntriesFrom(pages, 1)
        /\ iret = Nil

\* A listing of several pages, one of them with keys and a common prefix, has
\* been visited to the end.
C1_Witness ==
    /\ ipc = "done"
    /\ NoFailure
    /\ Len(pages) = MaxPages
    /\ Len(calls) > MaxKeys + MaxPrefixes
    /\ \E p \in 1..Len(pages) :
          Len(pages[p].Objects) > 0 /\ Len(pages[p].CommonPrefixes) > 0

\* C2: once the visitor has returned an error on its k-th invocation, that
\* invocation is the last one, Iter has returned exactly that error value, and
\* no page has been requested after the page of that entry.
C2_VisitorShortCircuit ==
    \A k \in 1..Len(calls) :
        calls[k].err # Nil =>
            /\ k = Len(calls)
            /\ ipc = "done"
            /\ iret = calls[k].err
            /\ Len(requests) = calls[k].page

\* The visitor has failed on a later invocation than the first, on a page
\* with entries left and pages to follow.
C2_Witness ==
    /\ Len(calls) >= 2
    /\ calls[Len(calls)].err = <<"e2">>
    /\ ipc = "done"
    /\ idx < Len(listNames)
    /\ lor.IsTruncated

\* C15: Iter("a", f) and Iter("a/", f) send the backend the prefix "a/" in
\* every request, Iter("", f) sends the empty prefix, and the prefix sent is
\* left unchanged by another normalisation.
C15_PrefixNormalized ==
    \A k \in 1..Len(requests) :
        /\ dirArg \in { <<"a">>, <<"a", "/">> } =>
              requests[k].Prefix = <<"a", "/">>
        /\ dirArg = <<>> => requests[k].Prefix = <<>>
        /\ NormalizeDir(requests[k].Prefix) = requests[k].Prefix

\* Iter("a", f) has sent a request, with the prefix "a/".
C15_Witness ==
    /\ dirArg = <<"a">>
    /\ Len(requests) >= 1
    /\ requests[1].Prefix = <<"a", "/">>

\* The page the backend served in answer to request k.
Served(k) == ServePage(requests[k].Marker)

\* How many times the visitor was called for the entries of the k-th page.
CallsOnPage(k) == Cardinality({ c \in 1..Len(calls) : calls[c].page = k })

\* C17: the first request carries the empty cursor; every later request
\* follows a page that was served and reported more pages, carries the cursor
\* that page returned with the same prefix and delimiter, and is sent only
\* after every entry of that page has been visited.
C17_CursorProtocol ==
    \A k \in 1..Len(requests) :
        /\ k = 1 => requests[k].Marker = EmptyMarker
        /\ k > 1 =>
              /\ answers[k - 1] = "page"
              /\ Served(k - 1).IsTruncated
              /\ requests[k].Marker = Served(k - 1).NextMarker
              /\ requests[k].Prefix = requests[k - 1].Prefix
              /\ requests[k].Delimiter = requests[k - 1].Delimiter
              /\ CallsOnPage(k - 1) = Len(Served(k - 1).Objects)
                                        + Len(Served(k - 1).CommonPrefixes)

\* Every page of a listing of MaxPages pages has been requested, and the
\* pages before the last had entries.
C17_Witness ==
    /\ Len(requests) = MaxPages
    /\ answers[Len(answers)] = "page"
    /\ \A k \in 1..(Len(requests) - 1) : CallsOnPage(k) > 0

\* C19: once a page request has failed, it is the last request, Iter has
\* returned an error, and the visitor has been called exactly once for every
\* entry of the pages fetched before the failure and for nothing else.
C19_ListFailureEndsIter ==
    \A k \in 1..Len(answers) :
        answers[k] = "error" =>
            /\ k = Len(requests)
            /\ ipc = "done"
            /\ iret # Nil
            /\ Visited = EntriesFrom(SubSeq(pages, 1, k - 1), 1)

\* A page request has failed after pages with entries were fetched.
C19_Witness ==
    /\ Len(answers) >= 2
    /\ answers[Len(answers)] = "error"
    /\ Len(calls) >= 2
    /\ ipc = "done"

\* ------------------------------------------------------ Iter, terminating

\* Iter runs to its end: it is synchronous code, and each of its steps is
\* taken once the backend or the visitor has answered.
SpecIterFair == SpecIter /\ WF_vars(IterNext)

\* C18: an Iter that was called returns; when the visitor never failed and no
\* page request failed it returns no error, whether or not its pages had
\* entries.
C18_IterTerminates ==
    (ipc # "idle") ~> (ipc = "done" /\ (NoFailure => iret = Nil))

\* Iter has returned no error from a listing whose last page has no keys and
\* no common prefixes, after a page that had some.
C18_Witness ==
    /\ ipc = "done"
    /\ NoFailure
    /\ iret = Nil
    /\ Len(pages) >= 2
    /\ Len(requests) = Len(pages)
    /\ ListNames(pages[Len(pages)]) = <<>>
    /\ Len(calls) > 0

\* ------------------------------------------------- Iter, with cancellation

\* Iter, and a caller that may cancel the ctx at any moment.
IterCancelNext ==
    \/ IterNext
    \/ IterCancel

SpecIterCancel == InitIter /\ [][IterCancelNext]_vars

\* C14: when the ctx is cancelled and Iter stands between two pages (a page
\* has been processed and reported more pages), no further page is requested.
C14_CancelStopsPaging ==
    [][(ctxDone /\ ipc = "list" /\ Len(requests) >= 1)
          => requests' = requests]_vars

\* ---------------------------------------------------- Upload: one call

InitUpload == UploadInit /\ GetInit /\ IterQuiet /\ BucketBound

\* One Upload call, with nothing else touching the scratch file.
UploadNext == \E p \in { 1 } : UploadStep(p, UploadNames, Inputs)

SpecUpload == InitUpload /\ [][UploadNext]_vars

\* The call p has returned to its caller.
HasReturned(p) == upc[p] = "returned"

\* The reader of call p ended its input by signalling end-of-data: the read
\* that ended the loop returned no bytes and io.EOF.
ReadToEOF(p) == rd[p] = [n |-> 0, err |-> EOF]

C8_ScratchRemoved ==
    \A p \in Procs :
        (HasReturned(p) /\ ReadToEOF(p)
            /\ (uret[p] = Nil \/ uploadRes[p] = <<"backendErr">>))
            => path = 0

\* C9: what an Upload (whose reader was read to its end-of-data) returns is
\* the result of the backend upload step (nil when
\* it succeeded, the backend's error when it failed), whether or not the
\* removal of the scratch file succeeded.
C9_RemoveFailureNonFatal ==
    \A p \in Procs :
        (HasReturned(p) /\ ReadToEOF(p)) => Cause(uret[p]) = uploadRes[p]

\* C10: when a read from the reader has failed with an error other than
\* end-of-data, Upload has returned an error to its caller, without a panic,
\* and has handed nothing to the backend's upload operation.
C10_ReadFailureReturned ==
    \A p \in Procs :
        rd[p].err = ReadErr =>
            /\ HasReturned(p)
            /\ uret[p] # Nil
            /\ handed[p] = <<>>

\* C20: Upload leaves its read loop only at the end of the data: once it has
\* left the loop, every byte of the reader's input has been read.
C20_OnlyEOFEndsReading ==
    \A p \in Procs :
        upc[p] \in { "flush", "upload", "remove", "returned" } =>
            pos[p] = Len(input[p])

\* --------------------------------------------- Upload: two calls at once

\* The two calls upload under different names, and each reader holds bytes
\* of its own: those of call 1 are all 1, those of call 2 all 2.
NameOf(p) == IF p = 1 THEN <<"x">> ELSE <<"y">>
OwnInputs(p) == SeqsUpTo({ p }, MaxInput)

\* Two Upload calls, their steps interleaved in any order.
UploadsNext == \E p \in Procs : UploadStep(p, { NameOf(p) }, OwnInputs(p))

SpecUploads == InitUpload /\ [][UploadsNext]_vars

\* The bytes the reader of call p has delivered.
Delivered(p) == SubSeq(input[p], 1, pos[p])

\* C3: when two Upload calls with different names and different contents run
\* at once, what each hands to the backend is exactly the bytes of its own
\* reader, and neither finds its scratch file removed.
C3_ConcurrentUploadsIsolated ==
    (uname[1] # uname[2] /\ input[1] # input[2]
        /\ \A p \in Procs : upc[p] # "idle") =>
        \A p \in Procs :
            /\ handed[p] # <<>> => handed[p] = <<Delivered(p)>>
            /\ uploadRes[p] # <<"open /tmp/thanos.tmp: no such file">>

\* ------------------------------------------- the calls on the *Bucket

\* The errors the backend answers a request for the object name with: the
\* service's answer that there is no such key, its answer that access is
\* denied, and the failure to reach it, whose text names the request's URL
\* and with it the object.
NoSuchKey ==
    <<"oss: service returned error:", "StatusCode=404", "ErrorCode=NoSuchKey">>
AccessDenied ==
    <<"oss: service returned error:", "StatusCode=403",
      "ErrorCode=AccessDenied">>
Transport(name) ==
    <<"http://endpoint/">> \o name \o <<"dial tcp: connection refused">>

\* strings.Contains(s, substr), on sequences of message parts.
Contains(s, substr) ==
    \E i \in 0..(Len(s) - Len(substr)) :
        SubSeq(s, i + 1, i + Len(substr)) = substr

\* return strings.Contains(err.Error(), "StatusCode=404")
IsObjNotFoundErr(err) == Contains(err, <<"StatusCode=404">>)

\* The error err is, under the contexts wrapped around it, the backend's
\* answer that there is no such key.
IndicatesNotFound(err) ==
    /\ Len(err) >= Len(NoSuchKey)
    /\ SubSeq(err, Len(err) - Len(NoSuchKey) + 1, Len(err)) = NoSuchKey

\* The object names of the requests that fail: those of the uploads, and one
\* that reads "StatusCode=404".
ErrNames == UploadNames \cup { <<"StatusCode=404">> }

\* The errors IsObjNotFoundErr is called with: what the backend answers, bare
\* and with the context of Delete.
BackendErrs == { NoSuchKey, AccessDenied } \cup { Transport(n) : n \in ErrNames }
ErrArgs == BackendErrs \cup { Wrap(e, "delete oss object") : e \in BackendErrs }

\* What b.bkt.DeleteObject(name) may return: nil or a failure, and for a
\* name the backend holds no object under also its no-such-key answer.
DeleteAnswers(name) ==
    { Nil, AccessDenied, Transport(name) } \cup
    (IF objects[name] = <<>> THEN { NoSuchKey } ELSE {})

\* What b.bkt.IsObjectExist(name) may return: whether the object is there,
\* or a failure.
ExistAnswers(name) ==
    { [flag |-> objects[name] # <<>>, err |-> Nil],
      [flag |-> FALSE, err |-> Transport(name)],
      [flag |-> FALSE, err |-> AccessDenied] }

\* NewBucket has returned a *Bucket.
Bound == npc = "done" /\ bkt # <<>>

\* No Iter and no Upload is under way, and none has panicked.
NoCallRunning ==
    /\ ipc \in { "idle", "done" }
    /\ \A p \in Procs : upc[p] \in { "idle", "returned" }

\* func (b *Bucket) Name() string { return b.name }
Name ==
    /\ Bound
    /\ NoCallRunning
    /\ last' = [NoCallYet EXCEPT !.op = "Name", !.str = bkt[1].name]
    /\ UNCHANGED <<conf, npc, config, client, bkt, nret>>
    /\ UNCHANGED <<ivars, gvars, uvars>>

\* func (b *Bucket) Delete(ctx, name) error, the backend answering answer:
\* its error is returned with the context "delete oss object".
Delete(name, answer) ==
    /\ Bound
    /\ NoCallRunning
    /\ objects' = IF answer = Nil THEN [objects EXCEPT ![name] = <<>>]
                  ELSE objects
    /\ last' = [NoCallYet EXCEPT
                  !.op = "Delete", !.name = name,
                  !.absent = (objects[name] = <<>>), !.answer = answer,
                  !.err = IF answer # Nil
                          THEN Wrap(answer, "delete oss object") ELSE Nil]
    /\ UNCHANGED <<path, files, upc, uname, input, pos, rd, wbuf, fo, handed,
                   uploadRes, uret>>
    /\ UNCHANGED <<conf, npc, config, client, bkt, nret>>
    /\ UNCHANGED <<ivars, gvars>>

\* func (b *Bucket) Exists(ctx, name) (bool, error)
\*     { return b.bkt.IsObjectExist(name) }
Exists(name, answer) ==
    /\ Bound
    /\ NoCallRunning
    /\ last' = [NoCallYet EXCEPT
                  !.op = "Exists", !.name = name, !.flag = answer.flag,
                  !.err = answer.err]
    /\ UNCHANGED <<conf, npc, config, client, bkt, nret>>
    /\ UNCHANGED <<ivars, gvars, uvars>>

\* b.IsObjNotFoundErr(err), called with an error err.
IsObjNotFoundErrCall(err) ==
    /\ Bound
    /\ NoCallRunning
    /\ last' = [NoCallYet EXCEPT
                  !.op = "IsObjNotFoundErr", !.err = err,
                  !.flag = IsObjNotFoundErr(err)]
    /\ UNCHANGED <<conf, npc, config, client, bkt, nret>>
    /\ UNCHANGED <<ivars, gvars, uvars>>

\* func (b *Bucket) Close() error { return nil }
CloseReleasesClient ==
    /\ Bound
    /\ NoCallRunning
    /\ last' = [NoCallYet EXCEPT !.op = "Close"]
    /\ bkt' = <<>>
    /\ UNCHANGED <<conf, npc, config, client, nret>>
    /\ UNCHANGED <<ivars, gvars, uvars>>
Close ==
    /\ Bound
    /\ NoCallRunning
    /\ last' = [NoCallYet EXCEPT !.op = "Close"]
    /\ UNCHANGED <<conf, npc, config, client, bkt, nret>>
    /\ UNCHANGED <<ivars, gvars, uvars>>

\* The listing of the bucket: a page of one key, and a page of one common
\* prefix.
BucketListing == << Page(1, 2, 1, 0), Page(2, 2, 0, 1) >>

\* b.Iter(ctx, "a", f) on the *Bucket, a step at a time.
BucketIter ==
    /\ Bound
    /\ \A p \in Procs : upc[p] \in { "idle", "returned" }
    /\ \/ IterCall(<<"a">>)
       \/ \E ok \in BOOLEAN : IterList(ok)
       \/ \E err \in { Nil, <<"e1">> } : IterVisit(err)
       \/ IterNextPage

\* b.Get(ctx, "x") and b.GetRange(ctx, "x", 0, 1) on the *Bucket.
BucketGet ==
    /\ Bound
    /\ NoCallRunning
    /\ \E resp \in GetResponses :
          \/ Get(<<"x">>, resp)
          \/ GetRange(<<"x">>, 0, 1, resp)

\* b.Upload on the *Bucket, a step at a time: the object x, of one byte.
BucketUpload ==
    /\ Bound
    /\ ipc \in { "idle", "done" }
    /\ UploadStep(1, { <<"x">> }, { <<1>> })

InitBucket ==
    /\ NewBucketInit
    /\ IterInit
    /\ pages = BucketListing
    /\ GetInit
    /\ UploadInit

\* NewBucket, and then the calls of one caller on the *Bucket it returned,
\* one after the other.
BucketNext ==
    \/ \E c \in Confs : NewBucketParse(c)
    \/ \E ok \in BOOLEAN : NewBucketClient(ok)
    \/ \E ok \in BOOLEAN : NewBucketBind(ok)
    \/ Name
    \/ \E name \in UploadNames : \E answer \in DeleteAnswers(name) :
          Delete(name, answer)
    \/ \E name \in UploadNames : \E answer \in ExistAnswers(name) :
          Exists(name, answer)
    \/ \E err \in ErrArgs : IsObjNotFoundErrCall(err)
    \/ Close
    \/ BucketIter
    \/ BucketGet
    \/ BucketUpload

SpecBucket == InitBucket /\ [][BucketNext]_vars

\* The document sets every one of the four keys to a non-empty value.
Complete(doc) ==
    /\ doc.parses
    /\ \A k \in ConfKeys : ValueOf(doc, k) # <<>>

\* C11: a client exists only for a document that parsed and has all four
\* values non-empty, and a bucket is bound only with a client; NewBucket
\* called with any other document has returned an error with no client
\* created and nothing bound; and with a document that has all four values
\* NewBucket gets past parsing and validation.
C11_ValidatedBeforeClient ==
    /\ client # <<>> => Complete(conf)
    /\ bkt # <<>> => client # <<>>
    /\ (npc # "start" /\ ~Complete(conf)) =>
          /\ npc = "done"
          /\ nret # Nil
          /\ client = <<>>
          /\ bkt = <<>>
    /\ (npc # "start" /\ Complete(conf)) =>
          \/ nret = Nil
          \/ nret[1] \notin { "parsing oss configuration",
                              "validate oss configuration" }

\* NewBucket has refused a document that lacks only the access key, with no
\* client created.
C11_Witness ==
    /\ npc = "done"
    /\ conf.parses
    /\ ValueOf(conf, "bucket") # <<>>
    /\ ValueOf(conf, "endpoint") # <<>>
    /\ ValueOf(conf, "access_id") # <<>>
    /\ ValueOf(conf, "access_key") = <<>>
    /\ nret = Wrap(validate(Unmarshal(conf)), "validate oss configuration")
    /\ client = <<>>

\* C12: when IsObjNotFoundErr has returned true, the error it was called
\* with is the backend's answer that there is no such object, bare or
\* wrapped.
C12_OnlyNotFoundClassified ==
    (last.op = "IsObjNotFoundErr" /\ last.flag) => IndicatesNotFound(last.err)

\* C13: when Delete was called for a name the backend held no object under,
\* and the backend was reached and refused nothing, Delete has returned an
\* error, and IsObjNotFoundErr classifies that error as not-found.
C13_DeleteAbsentIsNotFound ==
    (/\ last.op = "Delete"
     /\ last.absent
     /\ last.answer \in { Nil, NoSuchKey }) =>
        /\ last.err # Nil
        /\ IsObjNotFoundErr(last.err)

\* C16: the *Bucket that NewBucket returned is bound to the client made from
\* the document and carries the document's bucket name; Name() returns that
\* name; and no step of any call changes the *Bucket or the client once the
\* *Bucket exists.
C16_BoundNameStable ==
    /\ [](Bound =>
            /\ bkt[1].name = ValueOf(conf, "bucket")
            /\ bkt[1].bkt = ClientBucket(client[1], ValueOf(conf, "bucket"))
            /\ client[1] = OssNew(ValueOf(conf, "endpoint"),
                                  ValueOf(conf, "access_id"),
                                  ValueOf(conf, "access_key")))
    /\ [](last.op = "Name" => last.str = ValueOf(conf, "bucket"))
    /\ [][bkt # <<>> => (bkt' = bkt /\ client' = client)]_vars

\* Name() has returned "B" on the *Bucket of a document naming the bucket
\* "B", after an Iter, a Get or GetRange and an Upload that failed.
C16_Witness ==
    /\ Bound
    /\ ValueOf(conf, "bucket") = <<"B">>
    /\ last.op = "Name"
    /\ last.str = <<"B">>
    /\ ipc = "done"
    /\ gpc = "returned"
    /\ upc[1] = "returned"
    /\ uret[1] # Nil

====
